---- MODULE Spec2Model ----
(***************************************************************************)
(* usbkill (src/usbkill.py): a model of main(), test(), loop(),            *)
(* kill_computer(), is_unlocked(), lsdev() and log().                      *)
(*                                                                         *)
(* The process is single threaded; pc is its position in the code.  The    *)
(* environment (attached devices, the answer of the unlock probe, whether  *)
(* a bus source can be read, whether a power-off command really ends the   *)
(* process, termination signals) is chosen nondeterministically.           *)
(***************************************************************************)
EXTENDS Integers, Sequences, FiniteSets, TLC

(***************************************************************************)
(* Bounds and universes                                                    *)
(***************************************************************************)
\* the device ids the environment can attach
Devices == {1, 2, 3}

\* the most attach and detach events between two enumerations
MaxMoves == 3

\* how many discarded signals one cycle records
MaxDiscarded == 1

\* device 1 sits on the PCI bus, the others are USB devices
BusOf(d) == IF d = 1 THEN "pci" ELSE "usb"

Platforms == {"LINUX", "DARWIN", "FREEBSD"}

\* the sources lsdev() reads, per platform (lines 124, 135-140, 145, 154)
Sources(p) ==
    IF p = "LINUX"
    THEN {"usb", "pci", "pci_express", "firewire", "pcmcia"}
    ELSE {"usb", "pci"}

\* at most one source is unreadable at an enumeration
Unreadable(p) == {{}} \cup {{src} : src \in Sources(p)}

\* wait statuses os.system(unlock_cmd) can return: exit 0, exit 1,
\* command not found (exit 127)
ProbeStatuses == {0, 256, 32512}

(***************************************************************************)
(* State                                                                   *)
(***************************************************************************)
VARIABLES
    cfg,             \* the settings of the run, args.simulate included
    args_test,       \* --test was passed
    euid,            \* os.geteuid()
    platform,        \* CURRENT_PLATFORM
    pc,              \* position of the process
    kc_ret,          \* where the running kill_computer call returns to
    attached,        \* device ids attached to the machine right now
    known_devices,   \* loop(): known_devices
    current_devices, \* loop(): current_devices
    new_devices,     \* loop(): new_devices
    removed_devices, \* loop(): removed_devices
    todo,            \* devices of new_devices the for loop has not visited
    device,          \* loop(): device (the for loop's variable), 0 if none
    trace,           \* what the process did since the cycle began
    slept,           \* a sleep was done since the last enumeration
    at_snapshot,     \* the devices that were attached at the last enumeration
    moved,           \* devices attached or detached since the last enumeration
    bounced,         \* devices that moved between the last two enumerations
                     \* and were attached at both or at neither
    baseline,        \* the startup snapshot
    steady,          \* baseline devices seen in every snapshot so far
    flagged,         \* devices killed for as new, in every snapshot since
    gap              \* some enumeration so far missed an attached device

vars == <<cfg, args_test, euid, platform, pc, kc_ret, attached, known_devices,
          current_devices, new_devices, removed_devices, todo, device, trace,
          slept, at_snapshot, moved, bounced, baseline, steady, flagged, gap>>

env_vars == <<cfg, args_test, euid, platform>>
loop_vars == <<known_devices, current_devices, new_devices, removed_devices,
               todo, device>>
hist_vars == <<slept, at_snapshot, moved, bounced, baseline, steady, flagged,
               gap>>

(***************************************************************************)
(* Events of the trace                                                     *)
(***************************************************************************)
Ev(k, a, d) == [k |-> k, a |-> a, d |-> d]

\* log(msg, lsdev), lines 49-66: the line is always printed; with a log
\* file and lsdev=True the device listing command is run as well
log(msg, devs, lsdev) ==
    <<Ev("log", msg, devs)>> \o
    (IF lsdev /\ cfg.log_file THEN <<Ev("cmd", "lsusb; lspci >> log", {})>> ELSE <<>>)

\* os.system(cmd)
system(cmd) == <<Ev("cmd", cmd, {})>>

(***************************************************************************)
(* Pure functions of the program                                           *)
(***************************************************************************)
\* is_unlocked that trusts a missing or unexecutable probe
is_unlocked_FailOpen(ret) ==
    IF ~cfg.unlock_cmd THEN TRUE
    ELSE IF ret \in {0, 32512} THEN TRUE ELSE FALSE

\* is_unlocked(cfg), lines 107-115, given the status os.system would return
is_unlocked(ret) ==
    IF ~cfg.unlock_cmd THEN FALSE
    ELSE IF ret = 0 THEN TRUE ELSE FALSE

\* the events of one is_unlocked call made for devs: the probe command when
\* one is configured (line 111) with the status it ended with, and the
\* value returned
probe(ret, devs) ==
    (IF cfg.unlock_cmd
     THEN <<Ev("cmd", IF ret = 0 THEN "unlock_cmd: status 0"
                      ELSE "unlock_cmd: status not 0", devs)>>
     ELSE <<>>) \o
    <<Ev("probe", IF is_unlocked(ret) THEN "unlocked" ELSE "locked", devs)>>

\* lsdev(), lines 118-160, on platform p with the devices att attached while
\* the sources in unreadable cannot be read: an uncaught exception, or the
\* list of device ids (as a set: loop() wraps every call in set())
lsdev(p, att, unreadable) ==
    IF p = "LINUX"
    THEN \* glob.glob() of a missing directory is the empty list
         LET usb == IF "usb" \in unreadable THEN {}
                    ELSE {d \in att : BusOf(d) = "usb"}
             path_lst == {"pci", "pci_express", "firewire", "pcmcia"}
         IN  \* os.listdir() of a missing directory raises
             IF path_lst \cap unreadable # {}
             THEN [raised |-> TRUE, devices |-> {}]
             ELSE [raised |-> FALSE,
                   devices |-> usb \cup {d \in att : BusOf(d) \in path_lst}]
    ELSE \* subprocess.check_output() raises when the command fails
         IF {"usb", "pci"} \cap unreadable # {}
         THEN [raised |-> TRUE, devices |-> {}]
         ELSE [raised |-> FALSE,
               devices |-> {d \in att : BusOf(d) \in {"usb", "pci"}}]

\* line 201 with a test that never matches
InWhitelist_Never(d) == FALSE

\* line 201: device in cfg['whitelist']
InWhitelist(d) == d \in cfg.whitelist

\* line 227 with the comparison inverted
KillOnMissingDisabled_Inverted == cfg.kill_on_missing = 1

\* line 227: cfg['kill_on_missing'] != 1
KillOnMissingDisabled == cfg.kill_on_missing # 1

\* line 219 with the test left out
BatchPresent_Always == TRUE

\* line 219: if removed_devices
BatchPresent == removed_devices # {}

\* line 196 without the difference: every device of the snapshot is new
NewOf_NoDiff(current, known) == current

\* line 196
NewOf(current, known) == current \ known

\* line 197
RemovedOf(current, known) == known \ current

\* a built-in kill that knows the Linux command only
poweroff_cmd_LinuxOnly(p) == "poweroff -f"

\* the power-off command of the built-in kill, lines 91-102
poweroff_cmd(p) ==
    IF p = "DARWIN" THEN "dtrace panic"
    ELSE IF p = "FREEBSD" THEN "shutdown -h now"
    ELSE "poweroff -f"

(***************************************************************************)
(* Initial state: main() has registered the signal handlers (line 282)     *)
(* and loaded the settings (lines 285-288)                                 *)
(***************************************************************************)
\* the decision policy is swept with the kill simulated on a Linux host ...
PolicyRuns ==
    [cfg : [whitelist : SUBSET Devices,
            kill_cmd : {FALSE},
            unlock_cmd : BOOLEAN,
            kill_on_missing : {0, 1, 2},
            log_file : {FALSE},
            simulate : {TRUE}],
     args_test : {FALSE},
     euid : {0},
     platform : {"LINUX"}]

\* ... and the ways of starting and of killing are swept under one policy
ExecutorRuns ==
    [cfg : [whitelist : {{2}},
            kill_cmd : BOOLEAN,
            unlock_cmd : {TRUE},
            kill_on_missing : {1},
            log_file : {TRUE},
            simulate : BOOLEAN],
     args_test : BOOLEAN,
     euid : {0, 1000},
     platform : Platforms]

Runs == PolicyRuns \cup ExecutorRuns

\* the devices attached when the program starts: device 3 is not
StartAttached == {1, 2}

Init ==
    /\ \E r \in Runs :
          /\ cfg = r.cfg
          /\ args_test = r.args_test
          /\ euid = r.euid
          /\ platform = r.platform
    /\ pc = "main"
    /\ kc_ret = "none"
    /\ attached = StartAttached
    /\ known_devices = {}
    /\ current_devices = {}
    /\ new_devices = {}
    /\ removed_devices = {}
    /\ todo = {}
    /\ device = 0
    /\ trace = <<>>
    /\ slept = FALSE
    /\ at_snapshot = {}
    /\ moved = {}
    /\ bounced = {}
    /\ baseline = {}
    /\ steady = {}
    /\ flagged = {}
    /\ gap = FALSE

Terminal == {"exit0", "exit1", "crashed", "poweredoff", "done"}

(***************************************************************************)
(* main(), lines 290-304                                                   *)
(***************************************************************************)
\* main() without the check of lines 296-298
MainStart_NoPrivilegeCheck ==
    /\ pc = "main"
    /\ trace' = trace \o log("Starting with whitelist", {}, FALSE)
                      \o (IF cfg.simulate
                          THEN log("WARNING: Simulation mode enabled", {}, FALSE)
                          ELSE <<>>)
    /\ pc' = IF args_test THEN "test" ELSE "baseline"
    /\ UNCHANGED <<env_vars, kc_ret, attached, loop_vars, hist_vars>>

MainStart ==
    /\ pc = "main"
    /\ trace' = trace \o log("Starting with whitelist", {}, FALSE)
                      \o (IF cfg.simulate
                          THEN log("WARNING: Simulation mode enabled", {}, FALSE)
                          ELSE <<>>)
    /\ pc' = IF ~cfg.simulate /\ ~cfg.kill_cmd /\ euid # 0 THEN "exit1"
             ELSE IF args_test THEN "test"
             ELSE "baseline"
    /\ UNCHANGED <<env_vars, kc_ret, attached, loop_vars, hist_vars>>

(***************************************************************************)
(* exit_handler(), lines 240-242: a termination signal is delivered        *)
(***************************************************************************)
exit_handler ==
    /\ pc \notin Terminal
    /\ trace' = trace \o log("Exiting because exit signal was received", {}, FALSE)
    /\ pc' = "exit0"
    /\ UNCHANGED <<env_vars, kc_ret, attached, loop_vars, hist_vars>>

(***************************************************************************)
(* os.system() is system(3): while the command runs, the calling process   *)
(* ignores SIGINT and SIGQUIT, so one delivered during a command of lines  *)
(* 66, 77, 88-102, 111 or 258 is discarded and exit_handler never runs.    *)
(* The step changes nothing in the program; the trace records it right     *)
(* after the command during which the signal came.                         *)
(***************************************************************************)
DiscardedSignal == Ev("signal", "SIGINT discarded during os.system", {})

DiscardedSignals == Len(SelectSeq(trace, LAMBDA e : e = DiscardedSignal))

system_discards_signal ==
    /\ pc \notin Terminal
    /\ trace # <<>>
    /\ trace[Len(trace)].k = "cmd"
    /\ DiscardedSignals < MaxDiscarded
    /\ trace' = trace \o <<DiscardedSignal>>
    /\ UNCHANGED <<env_vars, pc, kc_ret, attached, loop_vars, hist_vars>>

(***************************************************************************)
(* kill_computer(cfg), lines 69-104; the caller has set kc_ret             *)
(***************************************************************************)
\* lines 71-73
KillSimulate ==
    /\ pc = "kc"
    /\ cfg.simulate
    /\ trace' = trace \o log("WARNING: Ignoring KILL procedure because of simulation mode", {}, FALSE)
    /\ pc' = kc_ret
    /\ UNCHANGED <<env_vars, kc_ret, attached, loop_vars, hist_vars>>

\* lines 76-77 reached without the test of line 71
KillCmd_IgnoresSimulate ==
    /\ pc = "kc"
    /\ cfg.kill_cmd
    /\ trace' = trace \o system("kill_cmd")
    /\ \E down \in BOOLEAN : pc' = IF down THEN "poweredoff" ELSE "kc_cmd_log"
    /\ UNCHANGED <<env_vars, kc_ret, attached, loop_vars, hist_vars>>

\* line 77: the command either takes the machine down or returns
KillCmd ==
    /\ pc = "kc"
    /\ ~cfg.simulate
    /\ cfg.kill_cmd
    /\ trace' = trace \o system("kill_cmd")
    /\ \E down \in BOOLEAN : pc' = IF down THEN "poweredoff" ELSE "kc_cmd_log"
    /\ UNCHANGED <<env_vars, kc_ret, attached, loop_vars, hist_vars>>

\* lines 78-79
KillCmdLog ==
    /\ pc = "kc_cmd_log"
    /\ trace' = trace \o log("Kill script executed...", {}, FALSE)
    /\ pc' = kc_ret
    /\ UNCHANGED <<env_vars, kc_ret, attached, loop_vars, hist_vars>>

\* line 88
KillSync ==
    /\ pc = "kc"
    /\ ~cfg.simulate
    /\ ~cfg.kill_cmd
    /\ trace' = trace \o system("sync")
    /\ pc' = "kc_poweroff"
    /\ UNCHANGED <<env_vars, kc_ret, attached, loop_vars, hist_vars>>

\* lines 91-102: the command either takes the machine down or returns
KillPlatform ==
    /\ pc = "kc_poweroff"
    /\ trace' = trace \o system(poweroff_cmd(platform))
    /\ \E down \in BOOLEAN : pc' = IF down THEN "poweredoff" ELSE "kc_builtin_log"
    /\ UNCHANGED <<env_vars, kc_ret, attached, loop_vars, hist_vars>>

\* line 104
KillBuiltinLog ==
    /\ pc = "kc_builtin_log"
    /\ trace' = trace \o log("Buildin kill executed", {}, FALSE)
    /\ pc' = kc_ret
    /\ UNCHANGED <<env_vars, kc_ret, attached, loop_vars, hist_vars>>

kill_computer ==
    \/ KillSimulate
    \/ KillCmd
    \/ KillCmdLog
    \/ KillSync
    \/ KillPlatform
    \/ KillBuiltinLog

(***************************************************************************)
(* test(cfg), lines 245-259                                                *)
(***************************************************************************)
\* lines 247-253
TestProbe ==
    /\ pc = "test"
    /\ \E ret \in ProbeStatuses :
          trace' = trace \o probe(ret, {})
                         \o log(IF is_unlocked(ret)
                                THEN "Device is currently unlocked"
                                ELSE "Device is locked", {}, FALSE)
                         \o log("WARNING: Executing a test of a kill procedure in 10 seconds", {}, FALSE)
    /\ pc' = "test_sleep1"
    /\ UNCHANGED <<env_vars, kc_ret, attached, loop_vars, hist_vars>>

\* lines 254-255
TestSleep1 ==
    /\ pc = "test_sleep1"
    /\ trace' = trace \o <<Ev("sleep", "5", {})>>
                      \o log("5 seconds left... (Ctrl-C to cancel)", {}, FALSE)
    /\ pc' = "test_sleep2"
    /\ UNCHANGED <<env_vars, kc_ret, attached, loop_vars, hist_vars>>

\* lines 256-257 without the sleep of line 256
TestSleep2_Skipped ==
    /\ pc = "test_sleep2"
    /\ trace' = trace \o log("Executing a kill procedure", {}, FALSE)
    /\ pc' = "test_sync"
    /\ UNCHANGED <<env_vars, kc_ret, attached, loop_vars, hist_vars>>

\* lines 256-257
TestSleep2 ==
    /\ pc = "test_sleep2"
    /\ trace' = trace \o <<Ev("sleep", "5", {})>>
                      \o log("Executing a kill procedure", {}, FALSE)
    /\ pc' = "test_sync"
    /\ UNCHANGED <<env_vars, kc_ret, attached, loop_vars, hist_vars>>

\* line 258: os.system("sync")
TestSync ==
    /\ pc = "test_sync"
    /\ trace' = trace \o system("sync")
    /\ pc' = "test_kill"
    /\ UNCHANGED <<env_vars, kc_ret, attached, loop_vars, hist_vars>>

\* line 259: the call of kill_computer
TestKill ==
    /\ pc = "test_kill"
    /\ trace' = trace \o <<Ev("kill", "test", {})>>
    /\ pc' = "kc"
    /\ kc_ret' = "done"
    /\ UNCHANGED <<env_vars, attached, loop_vars, hist_vars>>

test ==
    \/ TestProbe
    \/ TestSleep1
    \/ TestSleep2
    \/ TestSync
    \/ TestKill

(***************************************************************************)
(* The environment: devices are attached and detached.  Only lsdev()       *)
(* observes them, so the changes are taken right before an enumeration of  *)
(* the main loop.                                                          *)
(***************************************************************************)
\* the least number of events that lead from at_snapshot to att, moving mv
Moves(att, mv) ==
    Cardinality({d \in mv : (d \in att) # (d \in at_snapshot)})
    + 2 * Cardinality({d \in mv : (d \in att) = (d \in at_snapshot)})

Attach(d) ==
    /\ pc = "while"
    /\ d \notin attached
    /\ Moves(attached \cup {d}, moved \cup {d}) <= MaxMoves
    /\ attached' = attached \cup {d}
    /\ moved' = moved \cup {d}
    /\ UNCHANGED <<env_vars, pc, kc_ret, loop_vars, trace, slept, at_snapshot,
                   bounced, baseline, steady, flagged, gap>>

Detach(d) ==
    /\ pc = "while"
    /\ d \in attached
    /\ Moves(attached \ {d}, moved \cup {d}) <= MaxMoves
    /\ attached' = attached \ {d}
    /\ moved' = moved \cup {d}
    /\ UNCHANGED <<env_vars, pc, kc_ret, loop_vars, trace, slept, at_snapshot,
                   bounced, baseline, steady, flagged, gap>>

(***************************************************************************)
(* loop(cfg), lines 181-237                                                *)
(***************************************************************************)
\* line 186 with known_devices starting empty
Baseline_Forgets ==
    /\ pc = "baseline"
    /\ \E unreadable \in Unreadable(platform) :
          LET r == lsdev(platform, attached, unreadable)
          IN  IF r.raised
              THEN /\ pc' = "crashed"
                   /\ UNCHANGED <<known_devices, baseline, steady, gap>>
              ELSE /\ pc' = "start_log"
                   /\ known_devices' = {}
                   /\ baseline' = r.devices
                   /\ steady' = r.devices
                   /\ gap' = (gap \/ r.devices # attached)
    /\ at_snapshot' = attached
    /\ moved' = {}
    /\ UNCHANGED <<env_vars, kc_ret, attached, current_devices, new_devices,
                   removed_devices, todo, device, trace, slept, bounced,
                   flagged>>

\* line 186: the baseline snapshot
Baseline ==
    /\ pc = "baseline"
    /\ \E unreadable \in Unreadable(platform) :
          LET r == lsdev(platform, attached, unreadable)
          IN  IF r.raised
              THEN /\ pc' = "crashed"
                   /\ UNCHANGED <<known_devices, baseline, steady, gap>>
              ELSE /\ pc' = "start_log"
                   /\ known_devices' = r.devices
                   /\ baseline' = r.devices
                   /\ steady' = r.devices
                   /\ gap' = (gap \/ r.devices # attached)
    /\ at_snapshot' = attached
    /\ moved' = {}
    /\ UNCHANGED <<env_vars, kc_ret, attached, current_devices, new_devices,
                   removed_devices, todo, device, trace, slept, bounced,
                   flagged>>

\* lines 189-190
StartLog ==
    /\ pc = "start_log"
    /\ trace' = trace \o log("Started patrolling system interfaces", {}, TRUE)
    /\ pc' = "while"
    /\ UNCHANGED <<env_vars, kc_ret, attached, loop_vars, hist_vars>>

\* lines 195-197: a cycle begins
Snapshot ==
    /\ pc = "while"
    /\ \E unreadable \in Unreadable(platform) :
          LET r == lsdev(platform, attached, unreadable)
          IN  IF r.raised
              THEN /\ pc' = "crashed"
                   /\ UNCHANGED <<current_devices, new_devices, removed_devices,
                                  todo, steady, flagged, gap>>
              ELSE /\ pc' = "for"
                   /\ current_devices' = r.devices
                   /\ new_devices' = NewOf(r.devices, known_devices)
                   /\ removed_devices' = RemovedOf(r.devices, known_devices)
                   /\ todo' = NewOf(r.devices, known_devices)
                   /\ steady' = steady \cap r.devices
                   /\ flagged' = flagged \cap r.devices
                   /\ gap' = (gap \/ r.devices # attached)
    /\ trace' = <<>>
    /\ slept' = FALSE
    /\ at_snapshot' = attached
    /\ moved' = {}
    /\ bounced' = {d \in moved : (d \in attached) = (d \in at_snapshot)}
    /\ UNCHANGED <<env_vars, kc_ret, attached, known_devices, device, baseline>>

\* line 203 left out: the whitelisted device is logged but not recorded
NewWhitelisted_Forgets(d) ==
    /\ pc = "for"
    /\ d \in todo
    /\ InWhitelist(d)
    /\ trace' = trace \o log("INFO: New whitelisted device connected", {d}, TRUE)
    /\ todo' = todo \ {d}
    /\ UNCHANGED <<env_vars, pc, kc_ret, attached, known_devices,
                   current_devices, new_devices, removed_devices, device,
                   hist_vars>>

\* lines 200-204: the for loop takes a whitelisted device
NewWhitelisted(d) ==
    /\ pc = "for"
    /\ d \in todo
    /\ InWhitelist(d)
    /\ trace' = trace \o log("INFO: New whitelisted device connected", {d}, TRUE)
    /\ known_devices' = known_devices \cup {d}
    /\ todo' = todo \ {d}
    /\ UNCHANGED <<env_vars, pc, kc_ret, attached, current_devices, new_devices,
                   removed_devices, device, hist_vars>>

\* line 207 with the test inverted: kill when unlocked, accept when locked
NewUnknown_Inverted(d) ==
    /\ pc = "for"
    /\ d \in todo
    /\ ~InWhitelist(d)
    /\ todo' = todo \ {d}
    /\ \E ret \in ProbeStatuses :
          IF ~is_unlocked(ret)
          THEN /\ trace' = trace \o probe(ret, {d})
                    \o log("INFO: New unknown device connected while unlocked", {d}, TRUE)
               /\ known_devices' = known_devices \cup {d}
               /\ UNCHANGED <<pc, kc_ret, device>>
          ELSE /\ trace' = trace \o probe(ret, {d})
                    \o log("WARNING: New not-whitelisted device detected - killing the computer...", {d}, TRUE)
                    \o <<Ev("kill", "new", {d})>>
               /\ device' = d
               /\ pc' = "kc"
               /\ kc_ret' = "add_killed"
               /\ UNCHANGED known_devices
    /\ UNCHANGED <<env_vars, attached, current_devices, new_devices,
                   removed_devices, hist_vars>>

\* lines 200-201, 207-215: the for loop takes a device that is not
\* whitelisted and asks is_unlocked; when locked it logs the warning and
\* calls kill_computer
NewUnknown(d) ==
    /\ pc = "for"
    /\ d \in todo
    /\ ~InWhitelist(d)
    /\ todo' = todo \ {d}
    /\ \E ret \in ProbeStatuses :
          IF is_unlocked(ret)
          THEN /\ trace' = trace \o probe(ret, {d})
                    \o log("INFO: New unknown device connected while unlocked", {d}, TRUE)
               /\ known_devices' = known_devices \cup {d}
               /\ UNCHANGED <<pc, kc_ret, device>>
          ELSE /\ trace' = trace \o probe(ret, {d})
                    \o log("WARNING: New not-whitelisted device detected - killing the computer...", {d}, TRUE)
                    \o <<Ev("kill", "new", {d})>>
               /\ device' = d
               /\ pc' = "kc"
               /\ kc_ret' = "add_killed"
               /\ UNCHANGED known_devices
    /\ UNCHANGED <<env_vars, attached, current_devices, new_devices,
                   removed_devices, hist_vars>>

\* line 216 left out: the device killed for is not recorded
AddKilled_Forgets ==
    /\ pc = "add_killed"
    /\ device' = 0
    /\ pc' = "for"
    /\ UNCHANGED <<env_vars, kc_ret, attached, known_devices, current_devices,
                   new_devices, removed_devices, todo, trace, hist_vars>>

\* line 216 followed by a break: the cycle stops after the kill
AddKilled_Stops ==
    /\ pc = "add_killed"
    /\ known_devices' = known_devices \cup {device}
    /\ device' = 0
    /\ pc' = "sleep"
    /\ UNCHANGED <<env_vars, kc_ret, attached, current_devices, new_devices,
                   removed_devices, todo, trace, hist_vars>>

\* line 216: kill_computer has returned
AddKilled ==
    /\ pc = "add_killed"
    /\ known_devices' = known_devices \cup {device}
    /\ device' = 0
    /\ pc' = "for"
    /\ UNCHANGED <<env_vars, kc_ret, attached, current_devices, new_devices,
                   removed_devices, todo, trace, hist_vars>>

\* line 219 with nothing removed: on to the sleep of line 237
NoneRemoved ==
    /\ pc = "for"
    /\ todo = {}
    /\ ~BatchPresent
    /\ pc' = "sleep"
    /\ UNCHANGED <<env_vars, kc_ret, attached, loop_vars, trace, hist_vars>>

\* lines 219-234 with the test of line 221 inverted
Removed_Inverted ==
    /\ pc = "for"
    /\ todo = {}
    /\ BatchPresent
    /\ \E ret \in ProbeStatuses :
          IF ~is_unlocked(ret)
          THEN /\ trace' = trace \o probe(ret, removed_devices)
                    \o log("INFO: Device/s disconnected while unlocked", removed_devices, FALSE)
               /\ known_devices' = known_devices \ removed_devices
               /\ pc' = "continue"
               /\ UNCHANGED kc_ret
          ELSE IF KillOnMissingDisabled
          THEN /\ trace' = trace \o probe(ret, removed_devices)
                    \o log("INFO: Device/s disconnected but kill_on_missing disabled", removed_devices, FALSE)
               /\ known_devices' = known_devices \ removed_devices
               /\ pc' = "continue"
               /\ UNCHANGED kc_ret
          ELSE /\ trace' = trace \o probe(ret, removed_devices)
                    \o log("WARNING: Device/s disconnected while locked - killing the computer...", removed_devices, FALSE)
                    \o <<Ev("kill", "missing", removed_devices)>>
               /\ pc' = "kc"
               /\ kc_ret' = "sub_removed"
               /\ UNCHANGED known_devices
    /\ UNCHANGED <<env_vars, attached, current_devices, new_devices,
                   removed_devices, todo, device, hist_vars>>

\* lines 219-234: the batch of removed devices
Removed ==
    /\ pc = "for"
    /\ todo = {}
    /\ BatchPresent
    /\ \E ret \in ProbeStatuses :
          IF is_unlocked(ret)
          THEN /\ trace' = trace \o probe(ret, removed_devices)
                    \o log("INFO: Device/s disconnected while unlocked", removed_devices, FALSE)
               /\ known_devices' = known_devices \ removed_devices
               /\ pc' = "continue"
               /\ UNCHANGED kc_ret
          ELSE IF KillOnMissingDisabled
          THEN /\ trace' = trace \o probe(ret, removed_devices)
                    \o log("INFO: Device/s disconnected but kill_on_missing disabled", removed_devices, FALSE)
               /\ known_devices' = known_devices \ removed_devices
               /\ pc' = "continue"
               /\ UNCHANGED kc_ret
          ELSE /\ trace' = trace \o probe(ret, removed_devices)
                    \o log("WARNING: Device/s disconnected while locked - killing the computer...", removed_devices, FALSE)
                    \o <<Ev("kill", "missing", removed_devices)>>
               /\ pc' = "kc"
               /\ kc_ret' = "sub_removed"
               /\ UNCHANGED known_devices
    /\ UNCHANGED <<env_vars, attached, current_devices, new_devices,
                   removed_devices, todo, device, hist_vars>>

\* line 235 left out: the batch killed for stays known
SubRemoved_Forgets ==
    /\ pc = "sub_removed"
    /\ pc' = "sleep"
    /\ UNCHANGED <<env_vars, kc_ret, attached, loop_vars, trace, hist_vars>>

\* line 235: kill_computer has returned
SubRemoved ==
    /\ pc = "sub_removed"
    /\ known_devices' = known_devices \ removed_devices
    /\ pc' = "sleep"
    /\ UNCHANGED <<env_vars, kc_ret, attached, current_devices, new_devices,
                   removed_devices, todo, device, trace, hist_vars>>

\* the devices a kill for a new device was made for in this cycle
KilledAsNew == UNION {e.d : e \in {trace[i] : i \in 1..Len(trace)} \cap
                                  {Ev("kill", "new", {d}) : d \in Devices}}

\* the cycle is over: its locals are dead until lines 195-197 set them again
EndCycle ==
    /\ new_devices' = {}
    /\ removed_devices' = {}
    /\ trace' = <<>>
    /\ flagged' = flagged \cup KilledAsNew
    /\ bounced' = {}
    /\ pc' = "while"
    /\ UNCHANGED <<env_vars, kc_ret, attached, known_devices, current_devices,
                   todo, device, at_snapshot, moved, baseline, steady, gap>>

\* lines 224 and 230: continue, back to line 193 without the sleep
Continue ==
    /\ pc = "continue"
    /\ EndCycle
    /\ UNCHANGED slept

\* line 237
Sleep ==
    /\ pc = "sleep"
    /\ EndCycle
    /\ slept' = TRUE

loop ==
    \/ Baseline
    \/ StartLog
    \/ Snapshot
    \/ \E d \in Devices : NewWhitelisted(d)
    \/ \E d \in Devices : NewUnknown(d)
    \/ AddKilled
    \/ NoneRemoved
    \/ Removed
    \/ SubRemoved
    \/ Continue
    \/ Sleep

Environment == \E d \in Devices : Attach(d) \/ Detach(d)

Next ==
    \/ MainStart
    \/ test
    \/ loop
    \/ kill_computer
    \/ exit_handler
    \/ Environment

Spec == Init /\ [][Next]_vars

\* the same program with signals that arrive while a command runs; the
\* added step leaves every variable of the program unchanged
NextSignals == Next \/ system_discards_signal

SpecSignals == Init /\ [][NextSignals]_vars

(***************************************************************************)
(* Reading the trace of the cycle                                          *)
(***************************************************************************)
Events == {trace[i] : i \in 1..Len(trace)}

\* how many times kill_computer was called for the new device d
NewKills(d) == Len(SelectSeq(trace, LAMBDA e : e = Ev("kill", "new", {d})))

\* the kill_computer calls made for a batch of removed devices
MissingKills == SelectSeq(trace, LAMBDA e : e.k = "kill" /\ e.a = "missing")

\* the kill_computer calls of the main loop
LoopKills == SelectSeq(trace, LAMBDA e : e.k = "kill" /\ e.a # "test")

\* is_unlocked was called for devs and answered locked / unlocked
Locked(devs) == Ev("probe", "locked", devs) \in Events
Unlocked(devs) == Ev("probe", "unlocked", devs) \in Events

\* the for loop and the removal check of the cycle are both over
CycleDone == pc \in {"sleep", "continue"}

(***************************************************************************)
(* The claims                                                              *)
(***************************************************************************)
\* C1: a new device that is neither known nor whitelisted, met while
\* is_unlocked answers locked, gets exactly one kill_computer call in its
\* cycle and is known when the cycle is over; in the following cycles in
\* which it stays attached it is not a new device and no kill is made for it.
C1_UnauthorizedKilledOnceThenKnown ==
    /\ CycleDone =>
          \A d \in new_devices :
             (d \notin cfg.whitelist /\ Locked({d})) =>
                (NewKills(d) = 1 /\ d \in known_devices)
    /\ \A d \in flagged : d \notin new_devices /\ NewKills(d) = 0

\* a cycle after the one that killed for a device ended with the device
\* still attached
C1_Witness ==
    /\ pc = "sleep"
    /\ \E d \in flagged : d \notin cfg.whitelist /\ d \in current_devices

\* C2: a whitelisted device that appears in a snapshot while unknown causes
\* no kill_computer call, is_unlocked is not consulted for it, and it is
\* known when the cycle is over.
C2_WhitelistedNeverKills ==
    \A d \in new_devices :
       d \in cfg.whitelist =>
          /\ \A e \in Events : e.d = {d} => e.k \notin {"kill", "probe", "cmd"}
          /\ CycleDone => d \in known_devices

\* a cycle with a whitelisted new device is over, in a run without unlock
\* command (every probe answers locked)
C2_Witness ==
    /\ CycleDone
    /\ ~cfg.unlock_cmd
    /\ \E d \in new_devices : d \in cfg.whitelist /\ d \in known_devices

\* C3: in a cycle where every is_unlocked call answered True, no new device,
\* whitelisted or not, causes a kill_computer call, and every new device is
\* known when the cycle is over.
C3_UnlockedNeverKills ==
    (~args_test /\ \A e \in Events : e.k = "probe" => e.a = "unlocked") =>
       /\ LoopKills = <<>>
       /\ CycleDone => new_devices \subseteq known_devices

\* a cycle is over in which is_unlocked answered True for a new device that
\* is not whitelisted, next to a whitelisted new device
C3_Witness ==
    /\ CycleDone
    /\ \A e \in Events : e.k = "probe" => e.a = "unlocked"
    /\ \E d \in new_devices : d \notin cfg.whitelist /\ Unlocked({d})
    /\ \E d \in new_devices : d \in cfg.whitelist

\* C4: when a non-empty set of known devices is absent from the snapshot,
\* the session is locked and kill_on_missing is 1, kill_computer is called
\* exactly once for the whole batch and the batch is removed from
\* known_devices.
C4_MissingBatchKilledOnce ==
    /\ Len(MissingKills) <= 1
    /\ (CycleDone /\ removed_devices # {} /\ Locked(removed_devices)
          /\ cfg.kill_on_missing = 1) =>
          /\ MissingKills = <<Ev("kill", "missing", removed_devices)>>
          /\ known_devices \cap removed_devices = {}

\* a cycle is over in which two devices were missing while locked
C4_Witness ==
    /\ CycleDone
    /\ Cardinality(removed_devices) >= 2
    /\ Locked(removed_devices)
    /\ cfg.kill_on_missing = 1
    /\ Len(MissingKills) = 1

\* C5: when known devices are absent from the snapshot, the session is
\* locked and kill_on_missing is disabled, no kill_computer call is made for
\* the removal and the absent devices are removed from known_devices.
C5_MissingAcceptedWhenDisabled ==
    (removed_devices # {} /\ cfg.kill_on_missing # 1) =>
       /\ MissingKills = <<>>
       /\ (CycleDone /\ Locked(removed_devices)) =>
             known_devices \cap removed_devices = {}

\* a cycle is over in which devices were missing while locked, with
\* kill_on_missing = 0
C5_Witness ==
    /\ CycleDone
    /\ removed_devices # {}
    /\ Locked(removed_devices)
    /\ cfg.kill_on_missing = 0
    /\ known_devices \cap removed_devices = {}

\* C6 as stated: a device of the startup snapshot is never classified as a
\* new device on a later cycle, also after it was removed and re-attached
\* (stated for the runs in which no enumeration missed a device, so that a
\* device leaves the snapshots only by being detached).
C6_BaselineNeverNew == ~gap => baseline \cap new_devices = {}

\* C6 as amended: a device of the startup snapshot is never classified as a
\* new device, and no new-device kill is made for it, as long as it was
\* present in every snapshot since startup.
C6_SteadyBaselineNeverNew ==
    \A d \in steady : d \notin new_devices /\ NewKills(d) = 0

\* a cycle that classified new devices is over while a baseline device has
\* been in every snapshot
C6_Witness ==
    /\ CycleDone
    /\ steady # {}
    /\ new_devices # {}

\* C7 as stated: no kill_computer call is made for the connection or the
\* disconnection of whitelisted devices alone (stated for the runs in which
\* no enumeration missed a device, so that a device leaves the snapshots
\* only by being detached).
C7_WhitelistedNeverKills ==
    ~gap => \A e \in Events :
       (e.k = "kill" /\ e.a \in {"new", "missing"}) =>
          ~(e.d \subseteq cfg.whitelist)

SuppressLog == Ev("log", "WARNING: Ignoring KILL procedure because of simulation mode", {})

ExitLog == Ev("log", "Exiting because exit signal was received", {})

\* C8: with cfg['simulate'] true a kill_computer call runs no external
\* command: the only thing it does is to emit the suppression warning, after
\* which it has returned; the machine is never taken down, so the loop goes
\* on.
C8_SimulatedKillRunsNothing ==
    cfg.simulate =>
       /\ pc \notin {"poweredoff", "kc_cmd_log", "kc_poweroff", "kc_builtin_log"}
       /\ \A i \in 1..Len(trace) :
             trace[i].k = "kill" =>
                \/ i = Len(trace) /\ pc = "kc"
                \/ i < Len(trace) /\ trace[i + 1] = SuppressLog
                \/ i < Len(trace) /\ trace[i + 1] = ExitLog /\ pc = "exit0"
       /\ (trace # <<>> /\ trace[Len(trace)] = SuppressLog) => pc # "kc"

\* in simulation mode a cycle that killed for a new device is over and the
\* following cycle is running
C8_Witness ==
    /\ cfg.simulate
    /\ cfg.kill_cmd
    /\ flagged # {}
    /\ pc = "for"

\* C9 as stated: an unreadable bus source never crashes the process.
C9_UnreadableSourceTolerated == pc # "crashed"

\* the process is inside a cycle of the main loop
InCycle ==
    /\ ~args_test
    /\ pc \in {"for", "kc", "kc_cmd_log", "kc_poweroff", "kc_builtin_log",
               "add_killed", "sub_removed", "sleep", "continue"}

\* C10: a cycle whose snapshot equals known_devices makes no kill_computer
\* call, produces no event at all and leaves known_devices unchanged.
C10_UnchangedCycleIsSilent ==
    (InCycle /\ new_devices = {} /\ removed_devices = {}) =>
       /\ trace = <<>>
       /\ known_devices = current_devices
       /\ pc \in {"for", "sleep"}

\* an unchanged cycle that follows a sleep has reached its own sleep
C10_Witness ==
    /\ pc = "sleep"
    /\ ~args_test
    /\ new_devices = {}
    /\ removed_devices = {}
    /\ current_devices # {}
    /\ flagged # {}

\* C11 as stated: a termination signal delivered at any point stops the
\* process before anything else happens; in particular no kill_computer call
\* starts after the signal, and exit_handler's notice is the last event.
C11_NoKillAfterSignal ==
    /\ \A i \in 1..Len(trace) : \A j \in 1..Len(trace) :
          (trace[i].k = "signal" /\ i < j) => trace[j].k # "kill"
    /\ \A i \in 1..Len(trace) :
          trace[i] = ExitLog => (i = Len(trace) /\ pc = "exit0")

\* the positions of main() that belong to loop() and to test()
LoopPcs == {"baseline", "start_log", "while", "for", "add_killed",
            "sub_removed", "sleep", "continue", "crashed"}

TestPcs == {"test", "test_sleep1", "test_sleep2", "test_sync", "test_kill",
            "done"}

\* the trace up to its first kill_computer call
BeforeKill ==
    LET i == CHOOSE i \in 1..Len(trace) :
                /\ trace[i].k = "kill"
                /\ \A j \in 1..(i - 1) : trace[j].k # "kill"
    IN SubSeq(trace, 1, i - 1)

\* C12: with --test the process never enters loop() and never takes a device
\* snapshot; its one kill_computer call comes after the lock state was
\* logged and after two delays, and a run that was not interrupted ends
\* with exactly that one call; without --test no step of test() is taken.
C12_TestModeKillsOnce ==
    /\ args_test =>
          /\ pc \notin LoopPcs
          /\ kc_ret \in {"none", "done"}
          /\ at_snapshot = {} /\ baseline = {} /\ ~gap
          /\ known_devices = {} /\ current_devices = {}
          /\ Len(SelectSeq(trace, LAMBDA e : e.k = "kill")) <= 1
          /\ \A e \in Events : e.k = "kill" => e = Ev("kill", "test", {})
          /\ (\E e \in Events : e.k = "kill") =>
                /\ Len(SelectSeq(BeforeKill, LAMBDA e : e.k = "sleep")) = 2
                /\ \E i \in 1..Len(BeforeKill) :
                      /\ BeforeKill[i].k = "probe"
                      /\ BeforeKill[i + 1] =
                            Ev("log", IF BeforeKill[i].a = "unlocked"
                                      THEN "Device is currently unlocked"
                                      ELSE "Device is locked", {})
                      /\ \A j \in 1..i : BeforeKill[j].k # "sleep"
          /\ pc \in {"done", "poweredoff"} =>
                Len(SelectSeq(trace, LAMBDA e : e.k = "kill")) = 1
    /\ ~args_test =>
          /\ pc \notin TestPcs
          /\ kc_ret # "done"
          /\ \A e \in Events : e.k # "sleep" /\ e # Ev("kill", "test", {})

\* a test run went through its countdown and its kill returned
C12_Witness ==
    /\ args_test
    /\ pc = "done"
    /\ Ev("kill", "test", {}) \in Events

\* the start that lines 296-298 refuse
Unprivileged == ~cfg.simulate /\ ~cfg.kill_cmd /\ euid # 0

\* C13: not root, no kill_cmd and no --simulate: main() ends with exit
\* code 1 right after its start messages (or with a signal before that):
\* no snapshot, no cycle, no step of test(), no probe, no command and no
\* kill_computer call are ever made.
C13_UnprivilegedExitsAtStartup ==
    Unprivileged =>
       /\ pc \in {"main", "exit1", "exit0"}
       /\ \A e \in Events : e.k = "log"
       /\ pc = "exit1" => trace = <<Ev("log", "Starting with whitelist", {})>>
       /\ known_devices = {} /\ current_devices = {}
       /\ at_snapshot = {} /\ baseline = {} /\ ~gap
       /\ kc_ret = "none"

\* the unprivileged start ended with exit code 1
C13_Witness == Unprivileged /\ pc = "exit1"

\* the runs of the probe command
ProbeCmds == {"unlock_cmd: status 0", "unlock_cmd: status not 0"}

\* C14: without unlock_cmd is_unlocked runs no command and answers locked;
\* with unlock_cmd every call runs the probe command exactly once and
\* answers unlocked exactly when the status is 0 (a probe that cannot be
\* executed has a status that is not 0).  So without unlock_cmd every new
\* device outside the whitelist, and every removal under kill_on_missing = 1,
\* has its kill_computer call by the end of the cycle.
C14_ProbeFailsSecure ==
    /\ \A i \in 1..Len(trace) :
          trace[i].k = "probe" =>
             IF cfg.unlock_cmd
             THEN /\ i > 1
                  /\ trace[i - 1].k = "cmd"
                  /\ trace[i - 1].a \in ProbeCmds
                  /\ trace[i - 1].d = trace[i].d
                  /\ trace[i].a = "unlocked" <=>
                        trace[i - 1].a = "unlock_cmd: status 0"
             ELSE trace[i].a = "locked"
    /\ \A i \in 1..Len(trace) :
          (trace[i].k = "cmd" /\ trace[i].a \in ProbeCmds) =>
             /\ cfg.unlock_cmd
             /\ i < Len(trace)
             /\ trace[i + 1].k = "probe"
    /\ (~cfg.unlock_cmd /\ CycleDone) =>
          /\ \A d \in new_devices : d \notin cfg.whitelist => NewKills(d) = 1
          /\ (removed_devices # {} /\ cfg.kill_on_missing = 1) =>
                Len(MissingKills) = 1

\* a cycle is over in which the probe command failed for a new device and
\* the device was killed for
C14_Witness ==
    /\ CycleDone
    /\ cfg.unlock_cmd
    /\ \E d \in new_devices :
          /\ Ev("cmd", "unlock_cmd: status not 0", {d}) \in Events
          /\ NewKills(d) = 1

\* what one kill_computer call has to do under the settings of the run
KillStrategy ==
    IF cfg.simulate THEN <<SuppressLog>>
    ELSE IF cfg.kill_cmd
    THEN <<Ev("cmd", "kill_cmd", {}), Ev("log", "Kill script executed...", {})>>
    ELSE <<Ev("cmd", "sync", {}),
           Ev("cmd", CASE platform = "DARWIN" -> "dtrace panic"
                       [] platform = "FREEBSD" -> "shutdown -h now"
                       [] OTHER -> "poweroff -f", {}),
           Ev("log", "Buildin kill executed", {})>>

PoweroffCmds == {"dtrace panic", "shutdown -h now", "poweroff -f"}

\* the positions at which a kill_computer call is running
KillPcs == {"kc", "kc_cmd_log", "kc_poweroff", "kc_builtin_log"}

\* C15: every kill_computer call performs the one strategy that the
\* settings select (simulate, then kill_cmd, then the built-in kill), step
\* by step until it returns, the machine goes down or a signal ends the
\* process; kill_cmd and the platform command are run nowhere else, the
\* built-in kill runs sync right before its one platform command, and a run
\* with kill_cmd runs no sync and no platform command inside kill_computer.
C15_OneKillStrategy ==
    /\ \A i \in 1..Len(trace) :
          trace[i].k = "kill" =>
             /\ \A n \in 1..Len(KillStrategy) :
                   i + n <= Len(trace) =>
                      \/ trace[i + n] = KillStrategy[n]
                      \/ trace[i + n] = ExitLog
             /\ i + Len(KillStrategy) > Len(trace) =>
                   pc \in KillPcs \cup {"poweredoff", "exit0"}
    /\ \A j \in 1..Len(trace) :
          /\ trace[j] = Ev("cmd", "kill_cmd", {}) =>
                /\ ~cfg.simulate /\ cfg.kill_cmd
                /\ j > 1 /\ trace[j - 1].k = "kill"
          /\ (trace[j].k = "cmd" /\ trace[j].a \in PoweroffCmds) =>
                /\ ~cfg.simulate /\ ~cfg.kill_cmd
                /\ j > 2
                /\ trace[j - 1] = Ev("cmd", "sync", {})
                /\ trace[j - 2].k = "kill"
          /\ (trace[j] = Ev("cmd", "sync", {}) /\ j > 1 /\ trace[j - 1].k = "kill") =>
                ~cfg.simulate /\ ~cfg.kill_cmd

\* a built-in kill ran on a BSD platform and returned to the main loop
C15_Witness ==
    /\ platform = "FREEBSD"
    /\ pc = "sleep"
    /\ Ev("cmd", "shutdown -h now", {}) \in Events
    /\ Ev("log", "Buildin kill executed", {}) \in Events

\* the log lines that classify a new device and that evaluate a batch
NewDeviceLogs ==
    {"INFO: New whitelisted device connected",
     "INFO: New unknown device connected while unlocked",
     "WARNING: New not-whitelisted device detected - killing the computer..."}

BatchLogs ==
    {"INFO: Device/s disconnected while unlocked",
     "INFO: Device/s disconnected but kill_on_missing disabled",
     "WARNING: Device/s disconnected while locked - killing the computer..."}

\* where in the trace the new device d was classified, and where a batch
\* of removed devices was evaluated
ClassifiedAt(d) ==
    {i \in 1..Len(trace) :
        trace[i].k = "log" /\ trace[i].a \in NewDeviceLogs /\ trace[i].d = {d}}

BatchAt ==
    {i \in 1..Len(trace) : trace[i].k = "log" /\ trace[i].a \in BatchLogs}

\* C16: when the cycle is over every device of new_devices has been
\* classified exactly once and the batch of removed devices, when there is
\* one, has been evaluated exactly once; the batch is evaluated only after
\* every new device was classified, whatever kills were made before; no
\* other device is ever classified and no device twice.
C16_WholeCycleEvaluated ==
    /\ \A d \in Devices :
          /\ Cardinality(ClassifiedAt(d)) <= 1
          /\ (InCycle /\ d \notin new_devices) => ClassifiedAt(d) = {}
    /\ InCycle =>
          /\ Cardinality(BatchAt) <= 1
          /\ \A i \in BatchAt :
                /\ trace[i].d = removed_devices
                /\ removed_devices # {}
                /\ \A d \in new_devices : \E j \in ClassifiedAt(d) : j < i
    /\ CycleDone =>
          /\ \A d \in new_devices : Cardinality(ClassifiedAt(d)) = 1
          /\ removed_devices # {} => Cardinality(BatchAt) = 1

\* a cycle with two new devices, a kill for one of them and a batch of
\* removed devices is over
C16_Witness ==
    /\ CycleDone
    /\ Cardinality(new_devices) >= 2
    /\ \E d \in new_devices : NewKills(d) = 1
    /\ BatchAt # {}

\* C17: when a cycle is over (its kills have returned, no signal ended the
\* process) known_devices equals the snapshot the cycle took, the Linux
\* case of an unreadable USB glob included.
C17_KnownEqualsSnapshot ==
    CycleDone => known_devices = current_devices

\* a cycle that added new devices and dropped removed ones has reached the
\* continue of line 224 or 230
C17_Witness ==
    /\ pc = "continue"
    /\ new_devices # {}
    /\ removed_devices # {}
    /\ known_devices # {}

\* C18 as stated, for the cycles: every cycle that ends, whichever branch it
\* took, has slept once before loop() goes back to take the next snapshot
\* (runs in which every enumeration was complete).
C18_EveryCycleSleeps ==
    [][(CycleDone /\ ~gap /\ pc' = "while") => slept']_vars

\* the is_unlocked calls of the cycle
Probes == SelectSeq(trace, LAMBDA e : e.k = "probe")

ProbesFor(devs) == SelectSeq(trace, LAMBDA e : e.k = "probe" /\ e.d = devs)

\* C19 as stated: all decisions of one cycle are taken against a single
\* unlocked value, so no cycle both accepts something because is_unlocked
\* answered unlocked and calls kill_computer because it answered locked
\* (runs in which every enumeration was complete).
C19_SingleUnlockedValue ==
    (InCycle /\ ~gap) =>
       ~ /\ \E i \in 1..Len(Probes) : Probes[i].a = "unlocked"
         /\ LoopKills # <<>>

\* C19, amended: every decision of a cycle is taken against the answer of
\* its own is_unlocked call, one call for each new device outside the
\* whitelist and one for the batch of removed devices: the device is killed
\* for exactly when its call answered locked, the batch exactly when its
\* call answered locked and kill_on_missing is 1.  When all calls of the
\* cycle agree, the kills are those of that single value.
C19_EachDecisionOwnProbe ==
    CycleDone =>
       /\ \A d \in new_devices :
             IF d \in cfg.whitelist
             THEN ProbesFor({d}) = <<>>
             ELSE /\ Len(ProbesFor({d})) = 1
                  /\ NewKills(d) = (IF Locked({d}) THEN 1 ELSE 0)
       /\ Len(ProbesFor(removed_devices)) =
             (IF removed_devices # {} THEN 1 ELSE 0)
       /\ Len(MissingKills) =
             (IF removed_devices # {} /\ Locked(removed_devices)
                 /\ cfg.kill_on_missing = 1 THEN 1 ELSE 0)
       /\ Len(Probes) = Cardinality(new_devices \ cfg.whitelist)
                          + (IF removed_devices # {} THEN 1 ELSE 0)
       /\ (\A i \in 1..Len(Probes) : Probes[i].a = "unlocked") =>
             LoopKills = <<>>
       /\ (\A i \in 1..Len(Probes) : Probes[i].a = "locked") =>
             Len(LoopKills) = Cardinality(new_devices \ cfg.whitelist)
                              + (IF removed_devices # {} /\ cfg.kill_on_missing = 1
                                 THEN 1 ELSE 0)

\* a cycle is over that accepted one new device as unlocked and killed for
\* another one as locked
C19_Witness ==
    /\ CycleDone
    /\ ~gap
    /\ \E d1, d2 \in new_devices :
          /\ Unlocked({d1}) /\ NewKills(d1) = 0
          /\ Locked({d2}) /\ NewKills(d2) = 1

\* C20: a device that was attached and detached again, or detached and
\* attached again, entirely between two snapshots is invisible to the cycle
\* of the second snapshot: it is neither new nor removed, no event of the
\* cycle (probe, log line, command, kill_computer call) is about it, and
\* its membership in known_devices stays what it was; when nothing else
\* changed between the two snapshots the cycle does nothing at all,
\* whatever the whitelist, the lock state and kill_on_missing (runs in
\* which every enumeration was complete).
C20_BetweenSnapshotsInvisible ==
    (InCycle /\ ~gap) =>
       /\ \A d \in bounced :
             /\ d \notin new_devices
             /\ d \notin removed_devices
             /\ \A e \in Events : d \notin e.d
             /\ (d \in known_devices) = (d \in attached)
       /\ (bounced # {} /\ new_devices = {} /\ removed_devices = {}) =>
             /\ trace = <<>>
             /\ known_devices = current_devices

\* with no unlock command (locked) and kill_on_missing = 1 a device outside
\* the whitelist was attached and detached between two snapshots, and the
\* cycle of the second snapshot has reached its sleep
C20_Witness ==
    /\ pc = "sleep"
    /\ ~args_test
    /\ ~gap
    /\ ~cfg.unlock_cmd
    /\ cfg.kill_on_missing = 1
    /\ \E d \in bounced : d \notin cfg.whitelist /\ d \notin attached

====
